---- MODULE Spec2Model ----
(***************************************************************************)
(* Port Registry (server.py): a single-machine allocator of TCP ports for  *)
(* named services.  The persisted document registry.json is loaded and     *)
(* saved as a whole by every handler; the mutating handlers run under one  *)
(* process-wide lock, the read-only handlers run without it.               *)
(***************************************************************************)
EXTENDS Integers, FiniteSets, Sequences, TLC

VARIABLES
    REGISTRY_FILE,  \* content of registry.json: <<>> when truncated, <<data>> otherwise
    lock,           \* threading.Lock: <<>> when free, <<t>> when thread t holds it
    live,           \* ports on which some process of the host accepts connections
    pc,             \* position of each request-handling thread
    frame,          \* local variables of the handler a thread is running
    req,            \* the request most recently taken from a client
    res,            \* the response most recently sent to a client
    granted,        \* history: port last handed to a service and not released since
    former,         \* history: port a service held when it was last released
    calls,          \* number of requests taken so far
    client          \* client.py: how the last get_port call of a client ended

vars ==
    <<REGISTRY_FILE, lock, live, pc, frame, req, res, granted, former, calls,
      client>>

----------------------------------------------------------------------------
(* Input domains *)

\* requests the model follows
MaxCalls == 3

Threads == 1..2

Services == {"", "api", "worker"}

\* project and description of a request
Labels ==
    { [project |-> "proj", description |-> ""],
      [project |-> "other", description |-> "desc"] }

\* Optional[int]: <<>> is None, <<p>> is the integer p
PreferredPorts ==
    {<<>>, <<0>>, <<8000>>, <<8001>>, <<65534>>, <<65535>>, <<65536>>}

LivePorts == {8001}

CheckPorts == {8001, 8002, 65536}

RequestBody ==
    { [service |-> s, project |-> l.project, description |-> l.description,
       preferred_port |-> p] :
      s \in Services, l \in Labels, p \in PreferredPorts }

ReleaseBody == [service : Services]

----------------------------------------------------------------------------
(* Data *)

NoServices == [s \in {} |-> [port |-> 0, project |-> "", description |-> ""]]

\* registry.json as the server finds it when it starts: no service yet (hint
\* present or absent), or the document an earlier run left after one request
InitialData ==
    { [services |-> NoServices, next_available |-> 8002],
      [services |-> NoServices],
      [services |-> [s \in {"api"} |->
                       [port |-> 8002, project |-> "proj", description |-> ""]],
       next_available |-> 8003] }

\* json.load of the file: fails on a truncated (empty) document
Readable(file) == file # <<>>

load(file) == file[1]

\* dict with key "services" replaced, every other key kept
WithServices(data, services) ==
    [k \in DOMAIN data |-> IF k = "services" THEN services ELSE data[k]]

\* the stored hint raised to a floor of 8002
NextAvailableFloor(data) ==
    IF "next_available" \in DOMAIN data /\ data.next_available > 8002
    THEN data.next_available ELSE 8002

\* data.get("next_available", 8002)
NextAvailable(data) ==
    IF "next_available" \in DOMAIN data THEN data.next_available ELSE 8002

\* {v["port"] for v in services.values()}
UsedPorts(services) == {services[k].port : k \in DOMAIN services}

\* next(k for k, v in services.items() if v["port"] == port)
OwnerOf(services, port) ==
    CHOOSE k \in DOMAIN services : services[k].port = port

\* body.service in services
IsRegistered(services, service) == service \in DOMAIN services

\* Python truthiness of an Optional[int]
Truthy(opt) == opt # <<>> /\ opt[1] # 0

----------------------------------------------------------------------------
(* Poortcheck.  The probes one handler makes while it decides are answered *)
(* from one snapshot of the live ports; the ports change between steps.    *)

\* connect_ex takes any integer as a port and reports no listener for one
\* that is no TCP port
ConnectableAny(port) == TRUE

\* connect_ex raises OverflowError unless the port is in 0..65535
Connectable(port) == port \in 0..65535

\* port_in_use on a connectable port
port_in_use(liveNow, port) == port \in liveNow

RECURSIVE ScanRecordsOnly(_, _, _)
\* Scan without the probe's answer: a live port counts as free
ScanRecordsOnly(used, liveNow, port) ==
    IF port \in used THEN ScanRecordsOnly(used, liveNow, port + 1)
    ELSE IF ~Connectable(port) THEN [err |-> TRUE, port |-> port]
    ELSE [err |-> FALSE, port |-> port]

RECURSIVE Scan(_, _, _)
\* the while loop of find_next_free; err is the OverflowError of the probe
Scan(used, liveNow, port) ==
    IF port \in used THEN Scan(used, liveNow, port + 1)
    ELSE IF ~Connectable(port) THEN [err |-> TRUE, port |-> port]
    ELSE IF port_in_use(liveNow, port) THEN Scan(used, liveNow, port + 1)
    ELSE [err |-> FALSE, port |-> port]

\* start is Optional[int]
find_next_free(data, start, liveNow) ==
    Scan(UsedPorts(data.services), liveNow,
         IF Truthy(start) THEN start[1] ELSE NextAvailable(data))

----------------------------------------------------------------------------
(* Responses.  status is the HTTP status; 500 is an unhandled exception *)

Existing(body, port) ==
    [op |-> "request", status |-> 200, service |-> body.service,
     port |-> port, assigned_now |-> FALSE]

Assigned(body, port) ==
    [op |-> "request", status |-> 200, service |-> body.service,
     port |-> port, assigned_now |-> TRUE]

\* HTTPException(409): detail names the owning service, or an external process
Conflict(body, detail) ==
    [op |-> "request", status |-> 409, port |-> body.preferred_port[1],
     detail |-> detail]

InternalError(op) ==
    [op |-> op, status |-> 500]

Released(body, port) ==
    [op |-> "release", status |-> 200, released |-> body.service,
     port |-> port]

NotFound(body) ==
    [op |-> "release", status |-> 404]

NoResponse == [op |-> "none", status |-> 0]

----------------------------------------------------------------------------
(* Allocator: the decision of a handler on the loaded document.  The       *)
(* result says whether save(data) is reached and what the handler answers. *)

Answer(response) == [save |-> FALSE, response |-> response]

Commit(data, response) == [save |-> TRUE, data |-> data, response |-> response]

\* services[body.service] = {...}
AddRecord(services, body, port) ==
    [k \in DOMAIN services \cup {body.service} |->
        IF k = body.service
        THEN [port |-> port, project |-> body.project,
              description |-> body.description]
        ELSE services[k]]

\* the hint is the assigned port plus one, without a search
RegisterNaiveHint(data, body, port, liveNow) ==
    LET registered == WithServices(data, AddRecord(data.services, body, port))
    IN  IF ~Connectable(port + 1) THEN Answer(InternalError("request"))
        ELSE Commit([services |-> registered.services,
                     next_available |-> port + 1],
                    Assigned(body, port))

\* lines 176-190: register, recompute the hint, save
Register(data, body, port, liveNow) ==
    LET registered == WithServices(data, AddRecord(data.services, body, port))
        hint == find_next_free(registered, <<port + 1>>, liveNow)
    IN  IF hint.err
        THEN Answer(InternalError("request"))
        ELSE Commit([services |-> registered.services,
                     next_available |-> hint.port],
                    Assigned(body, port))

\* Preferred without the look at the records: the port is only probed
PreferredProbeOnly(data, body, liveNow) ==
    LET port == body.preferred_port[1]
    IN  IF ~Connectable(port)
        THEN Answer(InternalError("request"))
        ELSE IF port_in_use(liveNow, port)
        THEN Answer(Conflict(body, <<"external">>))
        ELSE Register(data, body, port, liveNow)

\* Preferred without the probe: the port is only looked up in the records
PreferredRecordsOnly(data, body, liveNow) ==
    LET port == body.preferred_port[1]
    IN  IF port \in UsedPorts(data.services)
        THEN Answer(Conflict(body, <<"owner", OwnerOf(data.services, port)>>))
        ELSE IF ~Connectable(port)
        THEN Answer(InternalError("request"))
        ELSE Register(data, body, port, liveNow)

\* lines 158-172: a preferred port is checked against the records, then probed
Preferred(data, body, liveNow) ==
    LET port == body.preferred_port[1]
    IN  IF port \in UsedPorts(data.services)
        THEN Answer(Conflict(body, <<"owner", OwnerOf(data.services, port)>>))
        ELSE IF ~Connectable(port)
        THEN Answer(InternalError("request"))
        ELSE IF port_in_use(liveNow, port)
        THEN Answer(Conflict(body, <<"external">>))
        ELSE Register(data, body, port, liveNow)

\* lines 173-174: no preference, search from the hint
Unconstrained(data, body, liveNow) ==
    LET found == find_next_free(data, <<>>, liveNow)
    IN  IF found.err
        THEN Answer(InternalError("request"))
        ELSE Register(data, body, found.port, liveNow)

\* request_port without the sticky branch: every request is a new one
request_decide_unsticky(data, body, liveNow) ==
    IF Truthy(body.preferred_port)
    THEN Preferred(data, body, liveNow)
    ELSE Unconstrained(data, body, liveNow)

\* a request for a recorded service keeps its port but takes the project
\* and the description of the new request
request_decide_relabel(data, body, liveNow) ==
    IF IsRegistered(data.services, body.service)
    THEN Commit(WithServices(data,
                    AddRecord(data.services, body,
                              data.services[body.service].port)),
                Existing(body, data.services[body.service].port))
    ELSE IF Truthy(body.preferred_port) THEN Preferred(data, body, liveNow)
    ELSE Unconstrained(data, body, liveNow)

\* request_port between load() and save()
request_decide(data, body, liveNow) ==
    IF IsRegistered(data.services, body.service)
    THEN Answer(Existing(body, data.services[body.service].port))
    ELSE IF Truthy(body.preferred_port)
    THEN Preferred(data, body, liveNow)
    ELSE Unconstrained(data, body, liveNow)

\* pop on a copy: the record stays in the document that is saved
RemoveRecordKept(services, service) == services

\* data["services"].pop(service)
RemoveRecord(services, service) ==
    [k \in DOMAIN services \ {service} |-> services[k]]

\* release_port with pop(service, None): an unknown service is released too
release_decide_pop_default(data, body) ==
    IF ~IsRegistered(data.services, body.service)
    THEN Commit(data, Released(body, 0))
    ELSE Commit(WithServices(data, RemoveRecord(data.services, body.service)),
                Released(body, data.services[body.service].port))

\* release_port that hands the released port back to the hint
release_decide_reclaim(data, body) ==
    IF ~IsRegistered(data.services, body.service)
    THEN Answer(NotFound(body))
    ELSE LET port == data.services[body.service].port
         IN  Commit([services |-> RemoveRecord(data.services, body.service),
                     next_available |->
                        IF port < NextAvailable(data)
                        THEN port ELSE NextAvailable(data)],
                    Released(body, port))

\* a release that rewinds the hint to the released port
release_decide_rewind(data, body) ==
    IF ~IsRegistered(data.services, body.service)
    THEN Answer(NotFound(body))
    ELSE Commit([services |-> RemoveRecord(data.services, body.service),
                 next_available |-> data.services[body.service].port],
                Released(body, data.services[body.service].port))

\* release_port between load() and save()
release_decide(data, body) ==
    IF ~IsRegistered(data.services, body.service)
    THEN Answer(NotFound(body))
    ELSE Commit(WithServices(data, RemoveRecord(data.services, body.service)),
                Released(body, data.services[body.service].port))

\* Python truthiness of used_by (None or a service name)
TruthyName(opt) == opt # <<>> /\ opt[1] # ""

\* check_port after load()
check_decide(data, port, liveNow) ==
    LET used_by == IF port \in UsedPorts(data.services)
                   THEN <<OwnerOf(data.services, port)>> ELSE <<>>
    IN  IF ~Connectable(port)
        THEN InternalError("check")
        ELSE [op |-> "check", status |-> 200, port |-> port,
              in_use |-> port_in_use(liveNow, port),
              registered_to |-> used_by,
              free |-> ~TruthyName(used_by) /\ ~port_in_use(liveNow, port)]

----------------------------------------------------------------------------
(* State machine *)

\* the records of a document with the prober's answer for each port
WithInUse(services, liveNow) ==
    [k \in DOMAIN services |->
        [port |-> services[k].port, project |-> services[k].project,
         description |-> services[k].description,
         in_use |-> port_in_use(liveNow, services[k].port)]]

\* root: the page lists name, port and project of every record and their number
root_page(data) ==
    [op |-> "root", status |-> 200,
     count |-> Cardinality(DOMAIN data.services),
     listed |-> [k \in DOMAIN data.services |->
                   [port |-> data.services[k].port,
                    project |-> data.services[k].project]]]

\* get_all_ports
all_ports(data, liveNow) ==
    [op |-> "ports", status |-> 200,
     services |-> WithInUse(data.services, liveNow)]

\* get_service_port
service_port(data, service, liveNow) ==
    IF ~IsRegistered(data.services, service)
    THEN [op |-> "lookup", status |-> 404]
    ELSE [op |-> "lookup", status |-> 200,
          info |-> WithInUse(data.services, liveNow)[service]]

\* names a path /ports/{service} can carry
LookupServices == Services \ {""}

NoFrame == [op |-> "none"]

NoRequest == [op |-> "none"]

----------------------------------------------------------------------------
(* client.py.  An exchange with the registry is <<>> when no connection    *)
(* is made and <<response>> when the registry answers.                     *)

\* the fallback argument of get_port: <<>> is None
Fallbacks == {<<>>, <<9000>>}

\* _post: urlopen raises URLError when the registry cannot be reached and
\* HTTPError when it answers with an error status
post(exchange) ==
    IF exchange = <<>> THEN [raised |-> "URLError"]
    ELSE IF exchange[1].status = 200
    THEN [raised |-> "none", result |-> exchange[1]]
    ELSE [raised |-> "HTTPError", code |-> exchange[1].status]

\* get_port: `except Exception` takes every exception of the try block
get_port(exchange, fallback) ==
    LET posted == post(exchange)
    IN  IF posted.raised = "none"
        THEN [raised |-> posted.raised, fallback |-> fallback,
              returned |-> <<posted.result.port>>, exited |-> FALSE]
        ELSE IF fallback # <<>>
        THEN [raised |-> posted.raised, fallback |-> fallback,
              returned |-> fallback, exited |-> FALSE]
        ELSE [raised |-> posted.raised, fallback |-> fallback,
              returned |-> <<>>, exited |-> TRUE]

NoCall ==
    [raised |-> "none", fallback |-> <<>>, returned |-> <<>>, exited |-> FALSE]

Init ==
    /\ REGISTRY_FILE \in {<<d>> : d \in InitialData}
    /\ lock = <<>>
    /\ live = {}
    /\ pc = [t \in Threads |-> "idle"]
    /\ frame = [t \in Threads |-> NoFrame]
    /\ req = NoRequest
    /\ res = NoResponse
    /\ granted = [s \in Services |->
                     IF s \in DOMAIN load(REGISTRY_FILE).services
                     THEN <<load(REGISTRY_FILE).services[s].port>> ELSE <<>>]
    /\ former = [s \in Services |-> <<>>]
    /\ calls = 0
    /\ client = NoCall

\* a request is handed to an idle thread of the pool (the first one: the
\* threads are interchangeable)
Takes(t) ==
    /\ pc[t] = "idle"
    /\ \A u \in Threads : u < t => pc[u] # "idle"
    /\ calls < MaxCalls
    /\ calls' = calls + 1

\* no lock at all: the thread enters whoever holds it
CanAcquireAnyway(t) == TRUE

\* with lock: the thread enters only when no thread holds the lock
CanAcquire(t) == lock = <<>>

\* request_port and release_port reach "with lock:" (lines 143, 195) and
\* wait there; the body is not read before the lock is held
enter(t, op) ==
    /\ Takes(t)
    /\ pc' = [pc EXCEPT ![t] = "with_lock"]
    /\ frame' = [frame EXCEPT ![t] = [op |-> op]]
    /\ UNCHANGED <<REGISTRY_FILE, lock, live, req, res, granted, former,
                   client>>

\* the lock covers load and decision only: it is free again during save()
DecidedUnlockedSave(t, op, body, decision) ==
    /\ IF decision.save
       THEN /\ pc' = [pc EXCEPT ![t] = "save_open"]
            /\ frame' = [frame EXCEPT ![t] =
                            [op |-> op, body |-> body,
                             loaded |-> load(REGISTRY_FILE), liveNow |-> live,
                             decision |-> decision]]
            /\ lock' = <<>>
            /\ UNCHANGED <<req, res, granted>>
       ELSE /\ pc' = [pc EXCEPT ![t] = "idle"]
            /\ frame' = [frame EXCEPT ![t] = NoFrame]
            /\ req' = [op |-> op, body |-> body]
            /\ res' = decision.response
            /\ granted' =
                 IF decision.response.status = 200 /\ op = "request"
                 THEN [granted EXCEPT ![body.service] = <<decision.response.port>>]
                 ELSE granted
            /\ UNCHANGED lock
    /\ UNCHANGED <<REGISTRY_FILE, live, former, calls, client>>

\* A mutating handler from the lock up to its save(): load, decide.  A
\* handler that answers without saving returns and releases the lock in
\* the same step.
Decided(t, op, body, decision) ==
    /\ IF decision.save
       THEN /\ pc' = [pc EXCEPT ![t] = "save_open"]
            /\ frame' = [frame EXCEPT ![t] =
                            [op |-> op, body |-> body,
                             loaded |-> load(REGISTRY_FILE), liveNow |-> live,
                             decision |-> decision]]
            /\ lock' = <<t>>
            /\ UNCHANGED <<req, res, granted>>
       ELSE /\ pc' = [pc EXCEPT ![t] = "idle"]
            /\ frame' = [frame EXCEPT ![t] = NoFrame]
            /\ req' = [op |-> op, body |-> body]
            /\ res' = decision.response
            /\ granted' =
                 IF decision.response.status = 200 /\ op = "request"
                 THEN [granted EXCEPT ![body.service] = <<decision.response.port>>]
                 ELSE granted
            /\ UNCHANGED lock
    /\ UNCHANGED <<REGISTRY_FILE, live, former, calls, client>>

request_port(t) ==
    /\ pc[t] = "with_lock"
    /\ frame[t].op = "request"
    /\ CanAcquire(t)
    /\ Readable(REGISTRY_FILE)
    /\ \E body \in RequestBody :
          Decided(t, "request", body,
                  request_decide(load(REGISTRY_FILE), body, live))

release_port(t) ==
    /\ pc[t] = "with_lock"
    /\ frame[t].op = "release"
    /\ CanAcquire(t)
    /\ Readable(REGISTRY_FILE)
    /\ \E body \in ReleaseBody :
          Decided(t, "release", body,
                  release_decide(load(REGISTRY_FILE), body))

\* save, line 45: open(REGISTRY_FILE, "w") truncates the file
save_open(t) ==
    /\ pc[t] = "save_open"
    /\ REGISTRY_FILE' = <<>>
    /\ pc' = [pc EXCEPT ![t] = "save_write"]
    /\ UNCHANGED <<lock, live, frame, req, res, granted, former, calls,
                   client>>

\* save, line 46: json.dump writes the document; the handler then returns
\* its response and the lock is released
save_write(t) ==
    /\ pc[t] = "save_write"
    /\ REGISTRY_FILE' = <<frame[t].decision.data>>
    /\ pc' = [pc EXCEPT ![t] = "idle"]
    /\ req' = [op |-> frame[t].op, body |-> frame[t].body]
    /\ res' = frame[t].decision.response
    /\ lock' = IF lock = <<t>> THEN <<>> ELSE lock
    /\ granted' = [granted EXCEPT ![frame[t].body.service] =
                     IF frame[t].op = "request"
                     THEN <<frame[t].decision.response.port>> ELSE <<>>]
    /\ former' = IF frame[t].op = "release"
                 THEN [former EXCEPT ![frame[t].body.service] =
                          <<frame[t].decision.response.port>>]
                 ELSE former
    /\ frame' = [frame EXCEPT ![t] = NoFrame]
    /\ UNCHANGED <<live, calls, client>>

\* check_port: no lock; load() raises on a document that is being rewritten
check_port(t) ==
    /\ Takes(t)
    /\ \E port \in CheckPorts :
          /\ req' = [op |-> "check", port |-> port]
          /\ res' = IF Readable(REGISTRY_FILE)
                    THEN check_decide(load(REGISTRY_FILE), port, live)
                    ELSE InternalError("check")
    /\ UNCHANGED <<REGISTRY_FILE, lock, live, pc, frame, granted, former,
                   client>>

\* a process of the host starts or stops listening on a port
listen(port) ==
    /\ live' = IF port \in live THEN live \ {port} ELSE live \cup {port}
    /\ UNCHANGED <<REGISTRY_FILE, lock, pc, frame, req, res, granted, former,
                   calls, client>>

Next ==
    \/ \E t \in Threads : enter(t, "request")
    \/ \E t \in Threads : enter(t, "release")
    \/ \E t \in Threads : request_port(t)
    \/ \E t \in Threads : release_port(t)
    \/ \E t \in Threads : save_open(t)
    \/ \E t \in Threads : save_write(t)
    \/ \E t \in Threads : check_port(t)
    \/ \E port \in LivePorts : listen(port)

Spec == Init /\ [][Next]_vars

----------------------------------------------------------------------------
(* Storage errors: the medium refuses the open or the write of save(), or  *)
(* load() under the lock finds a document it cannot parse.  The exception  *)
(* leaves the with-block (the lock is released) and the request fails.     *)

Raised(t) ==
    /\ pc' = [pc EXCEPT ![t] = "idle"]
    /\ req' = [op |-> frame[t].op, body |-> frame[t].body]
    /\ res' = InternalError(frame[t].op)
    /\ lock' = IF lock = <<t>> THEN <<>> ELSE lock
    /\ frame' = [frame EXCEPT ![t] = NoFrame]
    /\ UNCHANGED <<live, granted, former, calls, client>>

\* line 45 raises: the file is not opened, so not truncated
save_open_fails(t) ==
    /\ pc[t] = "save_open"
    /\ UNCHANGED REGISTRY_FILE
    /\ Raised(t)

\* line 46 raises: the file was truncated by the open and stays so
save_write_fails(t) ==
    /\ pc[t] = "save_write"
    /\ UNCHANGED REGISTRY_FILE
    /\ Raised(t)

\* lines 144 and 196: json.load raises under the lock
load_fails(t) ==
    /\ pc[t] = "with_lock"
    /\ CanAcquire(t)
    /\ ~Readable(REGISTRY_FILE)
    /\ \E body \in IF frame[t].op = "request" THEN RequestBody ELSE ReleaseBody :
          req' = [op |-> frame[t].op, body |-> body]
    /\ res' = InternalError(frame[t].op)
    /\ pc' = [pc EXCEPT ![t] = "idle"]
    /\ frame' = [frame EXCEPT ![t] = NoFrame]
    /\ UNCHANGED <<REGISTRY_FILE, lock, live, granted, former, calls, client>>

NextFault ==
    \/ Next
    \/ \E t \in Threads : save_open_fails(t)
    \/ \E t \in Threads : save_write_fails(t)
    \/ \E t \in Threads : load_fails(t)

SpecFault == Init /\ [][NextFault]_vars

----------------------------------------------------------------------------
(* The other read-only handlers: like check_port they load() without the   *)
(* lock and return                                                         *)

Reads(t, request, response) ==
    /\ Takes(t)
    /\ req' = request
    /\ res' = response
    /\ UNCHANGED <<REGISTRY_FILE, lock, live, pc, frame, granted, former,
                   client>>

root(t) ==
    Reads(t, [op |-> "root"],
          IF Readable(REGISTRY_FILE) THEN root_page(load(REGISTRY_FILE))
          ELSE InternalError("root"))

get_all_ports(t) ==
    Reads(t, [op |-> "ports"],
          IF Readable(REGISTRY_FILE) THEN all_ports(load(REGISTRY_FILE), live)
          ELSE InternalError("ports"))

get_service_port(t) ==
    \E service \in LookupServices :
       Reads(t, [op |-> "lookup", service |-> service],
             IF Readable(REGISTRY_FILE)
             THEN service_port(load(REGISTRY_FILE), service, live)
             ELSE InternalError("lookup"))

NextReads ==
    \/ Next
    \/ \E t \in Threads : root(t)
    \/ \E t \in Threads : get_all_ports(t)
    \/ \E t \in Threads : get_service_port(t)

SpecReads == Init /\ [][NextReads]_vars

----------------------------------------------------------------------------
(* A client process calls get_port of client.py                            *)

\* the registry answered the POST of get_port: res is that answer
client_get_port(fallback) ==
    /\ req.op = "request"
    /\ client' = get_port(<<res>>, fallback)
    /\ UNCHANGED <<REGISTRY_FILE, lock, live, pc, frame, req, res, granted,
                   former, calls>>

\* the registry cannot be reached from the client
client_unreachable(fallback) ==
    /\ client' = get_port(<<>>, fallback)
    /\ UNCHANGED <<REGISTRY_FILE, lock, live, pc, frame, req, res, granted,
                   former, calls>>

NextClient ==
    \/ Next
    \/ \E fallback \in Fallbacks : client_get_port(fallback)
    \/ \E fallback \in Fallbacks : client_unreachable(fallback)

SpecClient == Init /\ [][NextClient]_vars

----------------------------------------------------------------------------
(* Steps in which a handler returns; req' and res' are then its request    *)
(* and its response                                                        *)

\* thread t answers without reaching save(): REGISTRY_FILE and live are
\* what it loaded and probed
AnswersAtOnce(t) == pc[t] = "with_lock" /\ pc'[t] = "idle"

\* thread t returns from save() and from its handler
Saves(t) ==
    pc[t] = "save_write" /\ pc'[t] = "idle" /\ Readable(REGISTRY_FILE')

\* thread t leaves its handler by the exception of save()
SaveRaises(t) ==
    pc[t] \in {"save_open", "save_write"} /\ pc'[t] = "idle" /\ res'.status = 500

\* check_port returns
Checks == calls' = calls + 1 /\ pc' = pc

TypeOK ==
    /\ Len(REGISTRY_FILE) <= 1
    /\ lock \in {<<>>} \cup {<<t>> : t \in Threads}
    /\ live \subseteq LivePorts
    /\ pc \in [Threads -> {"idle", "with_lock", "save_open", "save_write"}]
    /\ calls \in 0..MaxCalls

Services_of(file) == load(file).services

----------------------------------------------------------------------------
(* Claims *)

\* C1 - Uniqueness: in every state reached by request_port (with or without
\* preferred_port) and release_port, no two distinct service names hold the
\* same port in the persisted registry.
C1_Uniqueness ==
    Readable(REGISTRY_FILE) =>
        \A a, b \in DOMAIN Services_of(REGISTRY_FILE) :
            a # b => Services_of(REGISTRY_FILE)[a].port
                        # Services_of(REGISTRY_FILE)[b].port

\* two services are recorded, the last one by a request with a preferred port
C1_Witness ==
    /\ Readable(REGISTRY_FILE)
    /\ Cardinality(DOMAIN Services_of(REGISTRY_FILE)) >= 2
    /\ req.op = "request"
    /\ Truthy(req.body.preferred_port)
    /\ res.status = 200
    /\ res.assigned_now

\* C2 - Sticky: a request_port for a service that was handed a port and has
\* not been released since returns that same port with assigned_now = false,
\* whatever project, description or preferred_port it carries and whether
\* or not the port is live.
C2_Sticky ==
    [][\A t \in Threads :
          ( /\ AnswersAtOnce(t) \/ Saves(t) \/ SaveRaises(t)
            /\ req'.op = "request"
            /\ granted[req'.body.service] # <<>> )
          => /\ res'.status = 200
             /\ res'.port = granted[req'.body.service][1]
             /\ res'.assigned_now = FALSE]_vars

\* a second request for a recorded service, carrying another project and a
\* preferred port, answered with the recorded port while that port is live
C2_Witness ==
    /\ req.op = "request"
    /\ res.status = 200
    /\ ~res.assigned_now
    /\ res.port \in live
    /\ Truthy(req.body.preferred_port)
    /\ req.body.preferred_port[1] # res.port
    /\ Readable(REGISTRY_FILE)
    /\ req.body.service \in DOMAIN Services_of(REGISTRY_FILE)
    /\ Services_of(REGISTRY_FILE)[req.body.service].project # req.body.project

\* C3 - Conflict precision: a request_port for an unregistered service with
\* a preferred port held by the record of service A fails with 409 naming A;
\* with a preferred port held by no record but live it fails with 409 naming
\* an external process.  In both cases no record is created: nothing is
\* saved.
C3_ConflictPrecision ==
    [][\A t \in Threads :
          LET body == IF pc'[t] = "idle" THEN req'.body ELSE frame'[t].body
              services == Services_of(REGISTRY_FILE)
          IN  ( /\ pc[t] = "with_lock"
                /\ pc'[t] # "with_lock"
                /\ frame[t].op = "request"
                /\ ~(body.service \in DOMAIN services)
                /\ Truthy(body.preferred_port) )
              => LET port == body.preferred_port[1]
                     holders == {a \in DOMAIN services : services[a].port = port}
                 IN  /\ \A a \in holders :
                           /\ AnswersAtOnce(t)
                           /\ res'.status = 409
                           /\ res'.detail = <<"owner", a>>
                           /\ REGISTRY_FILE' = REGISTRY_FILE
                     /\ (holders = {} /\ port \in live) =>
                           /\ AnswersAtOnce(t)
                           /\ res'.status = 409
                           /\ res'.detail = <<"external">>
                           /\ REGISTRY_FILE' = REGISTRY_FILE]_vars

\* a 409 that names the owner of the preferred port
C3_Witness ==
    /\ req.op = "request"
    /\ res.status = 409
    /\ res.detail[1] = "owner"
    /\ Readable(REGISTRY_FILE)
    /\ res.detail[2] \in DOMAIN Services_of(REGISTRY_FILE)
    /\ res.detail[2] # req.body.service
    /\ Services_of(REGISTRY_FILE)[res.detail[2]].port = req.body.preferred_port[1]
    /\ ~(req.body.service \in DOMAIN Services_of(REGISTRY_FILE))

\* a 409 for a preferred port that no record holds and that is live
C3_WitnessExternal ==
    /\ req.op = "request"
    /\ res.status = 409
    /\ res.detail = <<"external">>
    /\ req.body.preferred_port[1] \in live
    /\ Readable(REGISTRY_FILE)
    /\ ~(req.body.preferred_port[1] \in UsedPorts(Services_of(REGISTRY_FILE)))

\* C4 - No partial-state commits: whenever request_port fails (409, or an
\* exception while saving after the decision) the persisted store is exactly
\* what the handler loaded.
C4_NoPartialCommit ==
    [][\A t \in Threads :
          /\ ( /\ AnswersAtOnce(t)
               /\ req'.op = "request"
               /\ res'.status # 200 )
             => REGISTRY_FILE' = REGISTRY_FILE
          /\ ( /\ SaveRaises(t)
               /\ frame[t].op = "request" )
             => REGISTRY_FILE' = <<frame[t].loaded>>]_vars

\* C5 - Serialised mutation: a thread holds the lock from its load to the
\* end of its save, so request_port calls running on different threads are
\* all recorded (a port handed out stays in the persisted registry until it
\* is released: no lost update) and no two services are handed the same port.
C5_Serialised ==
    /\ \A t \in Threads :
          pc[t] \in {"save_open", "save_write"} => lock = <<t>>
    /\ Readable(REGISTRY_FILE) =>
          \A s \in Services :
             granted[s] # <<>> =>
                /\ s \in DOMAIN Services_of(REGISTRY_FILE)
                /\ Services_of(REGISTRY_FILE)[s].port = granted[s][1]
    /\ \A s1, s2 \in Services :
          (s1 # s2 /\ granted[s1] # <<>> /\ granted[s2] # <<>>)
             => granted[s1] # granted[s2]

\* a request_port waits at the lock while another one, for a new service,
\* is writing the document, and a third service is already recorded
C5_Witness ==
    \E t, u \in Threads :
       /\ pc[t] = "save_write"
       /\ frame[t].op = "request"
       /\ pc[u] = "with_lock"
       /\ frame[u].op = "request"
       /\ \E s \in Services : s # frame[t].body.service /\ granted[s] # <<>>

\* C6 - Monotonic search: a request_port for an unregistered service without
\* preferred_port returns a port that is not below the next_available hint
\* it loaded, is held by no record it loaded and was not live when probed.
C6_MonotonicSearch ==
    [][\A t \in Threads :
          ( /\ Saves(t)
            /\ frame[t].op = "request"
            /\ ~Truthy(frame[t].body.preferred_port) )
          => /\ res'.status = 200
             /\ "next_available" \in DOMAIN frame[t].loaded
                   => res'.port >= frame[t].loaded.next_available
             /\ ~(res'.port \in UsedPorts(frame[t].loaded.services))
             /\ ~(res'.port \in frame[t].liveNow)]_vars

\* an unconstrained request was answered with a port above a live,
\* unrecorded port
C6_Witness ==
    /\ req.op = "request"
    /\ ~Truthy(req.body.preferred_port)
    /\ res.status = 200
    /\ res.assigned_now
    /\ Readable(REGISTRY_FILE)
    /\ \E p \in live :
          p < res.port /\ ~(p \in UsedPorts(Services_of(REGISTRY_FILE)))

\* C7 - Release rejection: release_port for a service with no record answers
\* 404 every time, without saving and with the persisted store unchanged;
\* and a handler that can take the lock always finds a readable document, so
\* load() raises no storage error.
C7_ReleaseRejection ==
    [][\A t \in Threads :
          /\ (pc[t] = "with_lock" /\ CanAcquire(t)) => Readable(REGISTRY_FILE)
          /\ ( /\ pc[t] = "with_lock"
               /\ pc'[t] # "with_lock"
               /\ frame[t].op = "release"
               /\ ~((IF pc'[t] = "idle" THEN req'.body ELSE frame'[t].body).service
                       \in DOMAIN Services_of(REGISTRY_FILE)) )
             => /\ AnswersAtOnce(t)
                /\ res'.status = 404
                /\ REGISTRY_FILE' = REGISTRY_FILE]_vars

\* a release of a service that had already been released was answered 404
C7_Witness ==
    /\ req.op = "release"
    /\ res.status = 404
    /\ former[req.body.service] # <<>>
    /\ granted[req.body.service] = <<>>

\* C8 - Release effect: a successful release_port(s) removes exactly the
\* record of s, reports the port s held, and leaves every other record and
\* the next_available hint as they were loaded.
C8_ReleaseEffect ==
    [][\A t \in Threads :
          (Saves(t) /\ frame[t].op = "release")
          => LET s == frame[t].body.service
                 old == frame[t].loaded
                 new == load(REGISTRY_FILE')
             IN  /\ res'.status = 200
                 /\ res'.released = s
                 /\ res'.port = old.services[s].port
                 /\ DOMAIN new.services = DOMAIN old.services \ {s}
                 /\ \A k \in DOMAIN new.services :
                       new.services[k] = old.services[k]
                 /\ DOMAIN new = DOMAIN old
                 /\ NextAvailable(new) = NextAvailable(old)]_vars

\* a release succeeded, another record remains, and the hint stays above
\* the released port
C8_Witness ==
    /\ req.op = "release"
    /\ res.status = 200
    /\ Readable(REGISTRY_FILE)
    /\ DOMAIN Services_of(REGISTRY_FILE) # {}
    /\ NextAvailable(load(REGISTRY_FILE)) > res.port

\* C9 - Release/reacquire: a request_port(s) after release_port(s) is
\* answered as brand-new (assigned_now = true, the port chosen as for an
\* unregistered service); an unconstrained request_port of another service
\* is answered with the port s formerly held only if that port was neither
\* recorded nor live when the request was decided.
C9_ReleaseReacquire ==
    [][\A t \in Threads :
          /\ ( /\ AnswersAtOnce(t) \/ Saves(t)
               /\ req'.op = "request"
               /\ res'.status = 200
               /\ granted[req'.body.service] = <<>>
               /\ former[req'.body.service] # <<>> )
             => /\ Saves(t)
                /\ res'.assigned_now = TRUE
                /\ Truthy(req'.body.preferred_port)
                      => res'.port = req'.body.preferred_port[1]
                /\ ~(res'.port \in UsedPorts(frame[t].loaded.services))
                /\ ~(res'.port \in frame[t].liveNow)
          /\ ( /\ Saves(t)
               /\ frame[t].op = "request"
               /\ ~Truthy(frame[t].body.preferred_port)
               /\ \E s \in Services :
                     s # frame[t].body.service /\ former[s] = <<res'.port>> )
             => /\ ~(res'.port \in UsedPorts(frame[t].loaded.services))
                /\ ~(res'.port \in frame[t].liveNow)]_vars

\* a released service was registered again, on another port than before
C9_Witness ==
    /\ req.op = "request"
    /\ res.status = 200
    /\ res.assigned_now
    /\ former[req.body.service] # <<>>
    /\ former[req.body.service] # <<res.port>>

\* an unconstrained request of another service received the port a
\* released service had held
C9_WitnessReuse ==
    /\ req.op = "request"
    /\ ~Truthy(req.body.preferred_port)
    /\ res.status = 200
    /\ res.assigned_now
    /\ \E s \in Services : s # req.body.service /\ former[s] = <<res.port>>

\* C10 - check_port(p) is read-only and reports registered_to = the service
\* whose record holds p (none if no record holds it), in_use = the prober's
\* answer, and free = true exactly when no record holds p and p is not live.
C10_CheckPort ==
    [][( /\ Checks
         /\ req'.op = "check"
         /\ res'.status = 200 )
       => LET port == req'.port
              services == Services_of(REGISTRY_FILE)
              holders == {a \in DOMAIN services : services[a].port = port}
          IN  /\ REGISTRY_FILE' = REGISTRY_FILE
              /\ res'.registered_to \in
                    IF holders = {} THEN {<<>>} ELSE {<<a>> : a \in holders}
              /\ res'.in_use = (port \in live)
              /\ res'.free = (holders = {} /\ ~(port \in live))]_vars

\* C11 - Malformed request: a request_port whose service name is empty is
\* rejected and creates no record, so no key of the services mapping is the
\* empty name in any reachable state.
C11_NoEmptyName ==
    Readable(REGISTRY_FILE) => ~("" \in DOMAIN Services_of(REGISTRY_FILE))

\* C12 - Preferred port honoured: a request_port for an unregistered service
\* that supplies a preferred_port (any value) which no record holds and
\* which is not live is answered with exactly that port and assigned_now =
\* true, whatever the next_available hint is.
C12_PreferredHonoured ==
    [][\A t \in Threads :
          LET body == IF pc'[t] = "idle" THEN req'.body ELSE frame'[t].body
              services == Services_of(REGISTRY_FILE)
          IN  ( /\ pc[t] = "with_lock"
                /\ pc'[t] # "with_lock"
                /\ frame[t].op = "request"
                /\ ~(body.service \in DOMAIN services)
                /\ body.preferred_port # <<>>
                /\ ~(body.preferred_port[1] \in UsedPorts(services))
                /\ ~(body.preferred_port[1] \in live) )
              => /\ pc'[t] = "save_open"
                 /\ frame'[t].decision.response
                       = Assigned(body, body.preferred_port[1])]_vars

\* C13 - Client fallback: get_port returns the caller's fallback only when
\* the registry cannot be reached; an error reported by the registry (409,
\* 500) does not yield the fallback.
C13_ClientFallback ==
    client.raised = "HTTPError" =>
        (client.fallback = <<>> \/ client.returned # client.fallback)

\* C14 - Search floor, as claimed: an unconstrained request_port for an
\* unregistered service never returns a port below the default floor 8002.
C14_SearchFloor ==
    [][\A t \in Threads :
          ( /\ Saves(t)
            /\ frame[t].op = "request"
            /\ ~Truthy(frame[t].body.preferred_port) )
          => res'.port >= 8002]_vars

\* C14 - Search start, amended: an unconstrained request_port for an
\* unregistered service returns the lowest port, counted from the stored
\* next_available hint (from 8002 only when the document stores no hint),
\* that no record holds and that is not live.
C14_SearchStart ==
    [][\A t \in Threads :
          ( /\ Saves(t)
            /\ frame[t].op = "request"
            /\ ~Truthy(frame[t].body.preferred_port) )
          => LET loaded == frame[t].loaded
                 start == IF "next_available" \in DOMAIN loaded
                          THEN loaded.next_available ELSE 8002
                 taken == UsedPorts(loaded.services) \cup frame[t].liveNow
             IN  /\ res'.port >= start
                 /\ ~(res'.port \in taken)
                 /\ \A p \in start..(res'.port - 1) : p \in taken]_vars

\* an unconstrained request was answered with a port below 8002
C14_Witness ==
    /\ req.op = "request"
    /\ ~Truthy(req.body.preferred_port)
    /\ res.status = 200
    /\ res.assigned_now
    /\ res.port < 8002

\* C15 - Hint recomputation: after every request_port that newly assigns a
\* port p, the persisted next_available is the smallest port above p that
\* no record of the saved document (the new one included) holds and that
\* was not live when the handler probed.
C15_HintRecomputed ==
    [][\A t \in Threads :
          (Saves(t) /\ frame[t].op = "request")
          => LET new == load(REGISTRY_FILE')
                 taken == UsedPorts(new.services) \cup frame[t].liveNow
             IN  /\ res'.assigned_now
                 /\ res'.port \in UsedPorts(new.services)
                 /\ "next_available" \in DOMAIN new
                 /\ new.next_available > res'.port
                 /\ ~(new.next_available \in taken)
                 /\ \A q \in (res'.port + 1)..(new.next_available - 1) :
                       q \in taken]_vars

\* a port was newly assigned and the saved hint skipped a recorded port and
\* a live port
C15_Witness ==
    /\ req.op = "request"
    /\ res.status = 200
    /\ res.assigned_now
    /\ Readable(REGISTRY_FILE)
    /\ load(REGISTRY_FILE).next_available > res.port + 2
    /\ res.port + 1 \in live
    /\ res.port + 2 \in UsedPorts(Services_of(REGISTRY_FILE))

C17_RecordStability ==
    [][/\ \A t \in Threads :
             (pc[t] = "save_open" /\ pc'[t] = "save_write")
             => /\ Readable(REGISTRY_FILE)
                /\ \A s \in DOMAIN Services_of(REGISTRY_FILE) :
                      \/ frame[t].op = "release" /\ frame[t].body.service = s
                      \/ /\ s \in DOMAIN frame[t].decision.data.services
                         /\ frame[t].decision.data.services[s]
                               = Services_of(REGISTRY_FILE)[s]
       /\ \A t \in Threads :
             (pc[t] = "save_write" /\ pc'[t] = "idle")
             => REGISTRY_FILE' = <<frame[t].decision.data>>
       /\ (\A t \in Threads :
              pc[t] \in {"save_open", "save_write"} => pc'[t] = pc[t])
             => REGISTRY_FILE' = REGISTRY_FILE
       /\ \A t \in Threads :
             ( /\ pc[t] = "with_lock"
               /\ pc'[t] # "with_lock"
               /\ frame[t].op = "request"
               /\ (IF pc'[t] = "idle" THEN req'.body ELSE frame'[t].body).service
                     \in DOMAIN Services_of(REGISTRY_FILE) )
             => AnswersAtOnce(t) /\ REGISTRY_FILE' = REGISTRY_FILE]_vars

\* the record of a service was looked up, unchanged, after another service
\* had been registered and released
C17_Witness ==
    /\ req.op = "lookup"
    /\ res.status = 200
    /\ granted[req.service] = <<res.info.port>>
    /\ \E u \in Services : u # req.service /\ former[u] # <<>>
    /\ Readable(REGISTRY_FILE)
    /\ Services_of(REGISTRY_FILE)[req.service].project = res.info.project

\* C18 - No double release: of two concurrent release_port calls for the
\* same recorded service exactly one succeeds, reporting the port the
\* service held and removing that record only; the other one finds no
\* record and answers 404 without saving.
C18_NoDoubleRelease ==
    [][\A t \in Threads :
          /\ (Saves(t) /\ frame[t].op = "release")
             => LET s == frame[t].body.service
                    new == load(REGISTRY_FILE')
                IN  /\ granted[s] # <<>>
                    /\ res'.status = 200
                    /\ res'.port = granted[s][1]
                    /\ ~(s \in DOMAIN new.services)
                    /\ \A k \in Services \ {s} :
                          granted[k] # <<>>
                          => /\ k \in DOMAIN new.services
                             /\ new.services[k].port = granted[k][1]
          /\ ( /\ AnswersAtOnce(t) \/ Saves(t)
               /\ req'.op = "release"
               /\ granted[req'.body.service] = <<>> )
             => /\ AnswersAtOnce(t)
                /\ res'.status = 404
                /\ REGISTRY_FILE' = REGISTRY_FILE]_vars

\* a release_port waits at the lock while another release_port is writing
\* the document
C18_Witness ==
    \E t, u \in Threads :
       /\ pc[t] = "save_write"
       /\ frame[t].op = "release"
       /\ pc[u] = "with_lock"
       /\ frame[u].op = "release"

\* the release that waited was then answered 404 for the service the other
\* one had released, while another record stayed
C18_WitnessRefused ==
    /\ req.op = "release"
    /\ res.status = 404
    /\ former[req.body.service] # <<>>
    /\ granted[req.body.service] = <<>>
    /\ \E k \in Services : granted[k] # <<>>

\* C19 - Valid port range: in every reachable state every record's port,
\* and every port handed to a service, is a TCP port in 1..65535, whatever
\* preferred_port the requests supplied and also when the search reaches
\* the top of the range.
C19_ValidPortRange ==
    /\ Readable(REGISTRY_FILE) =>
          \A s \in DOMAIN Services_of(REGISTRY_FILE) :
             Services_of(REGISTRY_FILE)[s].port \in 1..65535
    /\ \A s \in Services :
          granted[s] # <<>> => granted[s][1] \in 1..65535
    /\ \A t \in Threads :
          (pc[t] \in {"save_open", "save_write"} /\ frame[t].op = "request")
          => \A s \in DOMAIN frame[t].decision.data.services :
                frame[t].decision.data.services[s].port \in 1..65535

\* with the hint at 65535 an unconstrained request ran its search to the
\* top of the range and failed, leaving the records as they were
C19_Witness ==
    /\ req.op = "request"
    /\ ~Truthy(req.body.preferred_port)
    /\ res.status = 500
    /\ Readable(REGISTRY_FILE)
    /\ NextAvailable(load(REGISTRY_FILE)) = 65535
    /\ ~(req.body.service \in DOMAIN Services_of(REGISTRY_FILE))

\* a request with a preferred port above 65535 failed and recorded nothing
C19_WitnessPreferred ==
    /\ req.op = "request"
    /\ Truthy(req.body.preferred_port)
    /\ req.body.preferred_port[1] > 65535
    /\ res.status = 500
    /\ Readable(REGISTRY_FILE)
    /\ ~(req.body.service \in DOMAIN Services_of(REGISTRY_FILE))

\* C20 - Unlocked reads see committed state: a read-only handler
\* (check_port, get_service_port, get_all_ports, root) that loads the
\* document while a request_port or release_port is saving finds a complete
\* document, the one before or the one after the save, and raises no
\* storage error.
C20_ReadsSeeCommitted ==
    [][( /\ Checks
         /\ req'.op \in {"check", "lookup", "ports", "root"}
         /\ req'.op = "check" => Connectable(req'.port)
         /\ \E t \in Threads : pc[t] \in {"save_open", "save_write"} )
       => /\ Readable(REGISTRY_FILE)
          /\ res'.status # 500]_vars

====
